---- MODULE Spec2Model ----
(***************************************************************************)
(* Model of app.py, the plant monitor: startup authentication, the         *)
(* capture -> resolve folder -> upload cycle, the schedule-driven polling  *)
(* loop and the shutdown signal handler.                                   *)
(*                                                                         *)
(* Time is counted in whole seconds since the job was scheduled.  The      *)
(* sleeps, the camera read and the upload attempts advance the clock       *)
(* inside their own actions; the other calls take no time on this scale.   *)
(* The remote store is changed by this program only, and every             *)
(* remote call is atomic: it takes effect and returns, or raises and has   *)
(* no effect.  A signal is delivered between two statements.               *)
(***************************************************************************)
EXTENDS Integers, Sequences, FiniteSets, TLC

\* ---------------------------------------------------------------- bounds
MaxTime == 12         \* the clock stops the behaviour at this many seconds
MaxInterval == 3      \* CONFIG['capture_interval_seconds'] ranges over 1..MaxInterval
MaxRetries == 3       \* CONFIG['max_retries'] ranges over 1..MaxRetries
MaxCallTime == 1      \* a remote or camera call lasts 0..MaxCallTime seconds
LeadToMidnight == 3   \* main() starts this many seconds before midnight
MaxCycles == 3        \* the behaviour stops before one more cycle than this
MaxPollTime == 6      \* the loop stops polling at this many seconds

\* ------------------------------------------------------ program constants
warmup_time == 2
RetryDelay == 5
PollDelay == 1
MinFileSize == 1000
SecondsPerDay == 86400

None == 0
RootId == 0

VARIABLES
  pc,                        \* position of the main thread
  ctx,                       \* caller of the running capture_and_upload: "none", "first", "sched"
  running,                   \* global running
  drive,                     \* global drive is not None
  auth_ok,                   \* value returned by authenticate_drive()
  plants_folder_id,          \* global plants_folder_id (None == 0)
  capture_interval_seconds,  \* CONFIG['capture_interval_seconds']
  max_retries,               \* CONFIG['max_retries']
  folders,                   \* remote store: set of [id, name, parent]
  remote_files,              \* remote store: set of [id, title, parent]
  local_files,               \* local disk: set of [path, size]
  now,                       \* seconds since main() started
  next_run,                  \* schedule job: next_run (None == -1 before scheduling)
  date_folder,               \* capture_and_upload: date_folder
  filename,                  \* capture_and_upload: filename
  day_folder_id,             \* capture_and_upload: day_folder_id
  cam,                       \* capture_image: device handle, "none" or "held"
  capture_result,            \* how the last capture_image call ended
  attempt,                   \* upload_with_retry: loop variable
  outcomes,                  \* what the last upload_with_retry call did: "ok", "fail", "sleep"
  upload_result,             \* value returned by the last upload_with_retry call
  invoked,                   \* components invoked in the current cycle
  events,                    \* kinds of step that ever happened in this run
  started_at,                \* start times of the cycles, in order
  ended_at,                  \* end times of the completed cycles, in order
  created,                   \* folders created by get_or_create_drive_folder
  exit_kind,                 \* how the process ended
  ended_logged,              \* the final "Script Ended" entry was logged
  at_signal                  \* what had happened when the signal arrived

config == <<capture_interval_seconds, max_retries>>
globals == <<running, drive, auth_ok, plants_folder_id>>
store == <<folders, remote_files, created>>
clock == <<now, next_run>>
cyclevars == <<date_folder, filename, day_folder_id, capture_result, invoked>>
uploadvars == <<attempt, outcomes, upload_result>>
history == <<events, started_at, ended_at>>
ending == <<exit_kind, ended_logged>>

vars == <<pc, ctx, config, globals, store, local_files, clock, cyclevars, cam,
          uploadvars, history, ending, at_signal>>

\* ---------------------------------------------------------------- helpers
BootTime == SecondsPerDay - LeadToMidnight

\* datetime.now(), as wall-clock seconds
WallClock(t) == BootTime + t

\* now.strftime("%Y-%m-%d"): the calendar day
StrfDate(w) == <<"date", w \div SecondsPerDay>>

\* now.strftime("%Y%m%d_%H%M%S") + ".jpg": the calendar day and the second of the day
StrfStamp(w) == <<w \div SecondsPerDay, w % SecondsPerDay, "jpg">>

PlantsName == <<"plants", 0>>

\* os.path.join(local_day_folder, filename)
LocalPath(dir, file) == <<dir, file>>

Durations == 0..MaxCallTime

CanWait(d) == now + d <= MaxTime

\* number of capture cycles started so far
cycles == Len(started_at)

\* ------------------------------------------------------------------- Init
Init ==
  /\ pc = "start"
  /\ ctx = "none"
  /\ running = TRUE
  /\ drive = FALSE
  /\ auth_ok = FALSE
  /\ plants_folder_id = None
  /\ capture_interval_seconds \in 1..MaxInterval
  /\ max_retries \in 1..MaxRetries
  /\ folders \in {{}, {[id |-> 1, name |-> PlantsName, parent |-> RootId]}}
  /\ remote_files = {}
  /\ created = {}
  /\ local_files = {}
  /\ now = 0
  /\ next_run = -1
  /\ date_folder = <<"date", 0>>
  /\ filename = <<0, 0, "jpg">>
  /\ day_folder_id = None
  /\ capture_result = "pending"
  /\ invoked = {}
  /\ cam = "none"
  /\ attempt = 0
  /\ outcomes = <<>>
  /\ upload_result = "none"
  /\ events = {}
  /\ started_at = <<>>
  /\ ended_at = <<>>
  /\ exit_kind = "none"
  /\ ended_logged = FALSE
  /\ at_signal = [events |-> {}, cycles |-> 0, now |-> 0, in_flight |-> FALSE]

\* ------------------------------------------- exceptions leaving the program
\* main(): the try block of the main loop is active
InTry == pc \in {"loop_top", "loop_sleep"} \/ ctx = "sched"

\* capture_image without its finally clause
CaptureFinallyMissing(c) == c

\* capture_image: finally: if cam is not None: cam.release()
CaptureFinally(c) == "none"

\* An exception that no handler catches (SystemExit, or an OSError outside
\* every try) unwinds the stack: capture_image's finally releases the camera,
\* main's finally logs the final entry when the loop's try is active, and the
\* process ends.
Raise(kind) ==
  /\ cam' = CaptureFinally(cam)
  /\ ended_logged' = InTry
  /\ exit_kind' = kind
  /\ pc' = "exited"
  /\ UNCHANGED ctx

\* a handler that only clears the flag
SysExitSkipped == UNCHANGED <<pc, ctx, cam, exit_kind, ended_logged>>

\* sys.exit(0) inside the handler: SystemExit is raised where the signal arrived
SysExit == Raise("signal")

\* signal_handler, for SIGINT and SIGTERM
signal_handler ==
  /\ pc # "exited"
  /\ running
  /\ running' = FALSE
  /\ at_signal' = [events |-> events, cycles |-> cycles, now |-> now,
                   in_flight |-> cycles > Len(ended_at)]
  /\ SysExit
  /\ UNCHANGED <<config, drive, auth_ok, plants_folder_id, store, local_files,
                 clock, cyclevars, uploadvars, history>>

\* ------------------------------------------------------------ the scheduler
\* a scheduler that keeps a fixed rate and so catches up on missed ticks
ScheduleNextRunFixedRate(t, previous) == previous + capture_interval_seconds

\* schedule: Job._schedule_next_run, next_run = datetime.now() + period
ScheduleNextRun(t, previous) == t + capture_interval_seconds

\* a job that is due only after its time has passed
ShouldRunStrict == now > next_run

\* schedule: Job.should_run
ShouldRun == now >= next_run

\* capture_and_upload returns to its caller: main (first cycle) goes on to the
\* loop; schedule's Job.run reschedules the job and run_pending returns.
CycleReturn ==
  /\ ended_at' = Append(ended_at, now')
  /\ IF ctx = "first"
       THEN pc' = "loop_top" /\ UNCHANGED next_run
       ELSE pc' = "loop_sleep" /\ next_run' = ScheduleNextRun(now', next_run)
  /\ ctx' = "none"

\* main: while running: schedule.run_pending() ... finally: final log entry
LoopTop ==
  /\ pc = "loop_top"
  /\ (running /\ ShouldRun) => cycles < MaxCycles
  /\ IF ~running
       THEN /\ pc' = "exited"
            /\ exit_kind' = "loop_end"
            /\ ended_logged' = TRUE
            /\ UNCHANGED ctx
       ELSE /\ IF ShouldRun
                 THEN pc' = "cycle_begin" /\ ctx' = "sched"
                 ELSE pc' = "loop_sleep" /\ UNCHANGED ctx
            /\ UNCHANGED ending
  /\ UNCHANGED <<config, at_signal, globals, store, local_files, clock, cyclevars, cam,
                 uploadvars, history>>

\* main: time.sleep(1)
LoopSleep ==
  /\ pc = "loop_sleep"
  /\ CanWait(PollDelay)
  /\ now + PollDelay <= MaxPollTime
  /\ now' = now + PollDelay
  /\ pc' = "loop_top"
  /\ UNCHANGED <<ctx, config, at_signal, globals, store, local_files, next_run, cyclevars,
                 cam, uploadvars, history, ending>>

\* ------------------------------------------------------- the remote store
\* a query that forgets the parent and always looks in the root
MatchesInRoot(name, parent_id) ==
  {f \in folders : f.name = name /\ f.parent = RootId}

\* the folders the query of get_or_create_drive_folder selects
Matches(name, parent_id) ==
  {f \in folders : /\ f.name = name
                   /\ f.parent = (IF parent_id # None THEN parent_id ELSE RootId)}

\* identifier the remote store gives to a new entry
NewId == Cardinality(folders) + Cardinality(remote_files) + 1

\* drive.ListFile(...).GetList() and the choice of file_list[0]: the call
\* raises, or returns the matches in the service's order, or returns nothing
ListFileOutcomes(name, parent_id) ==
  {[k |-> "error", id |-> None]}
    \cup {[k |-> "found", id |-> f.id] : f \in Matches(name, parent_id)}
    \cup (IF Matches(name, parent_id) = {} THEN {[k |-> "empty", id |-> None]} ELSE {})

\* drive.CreateFile(folder_metadata); folder.Upload()
CreateFolder(name, parent_id) ==
  [id |-> NewId, name |-> name,
   parent |-> (IF parent_id # None THEN parent_id ELSE RootId)]

\* --------------------------------------------------------- authentication
\* authenticate_drive: credentials, GoogleDrive(gauth)
Authenticate ==
  /\ pc = "start"
  /\ \E ok \in BOOLEAN :
       IF ok THEN /\ drive' = TRUE
                  /\ pc' = "auth_query"
                  /\ UNCHANGED auth_ok
             ELSE /\ auth_ok' = FALSE
                  /\ pc' = "auth_done"
                  /\ UNCHANGED drive
  /\ UNCHANGED <<ctx, config, at_signal, running, plants_folder_id, store, local_files,
                 clock, cyclevars, cam, uploadvars, history, ending>>

\* authenticate_drive: get_or_create_drive_folder("plants"), the query
AuthQuery ==
  /\ pc = "auth_query"
  /\ events' = events \cup {"resolve"}
  /\ \E r \in ListFileOutcomes(PlantsName, None) :
       IF r.k = "empty"
         THEN /\ pc' = "auth_create"
              /\ UNCHANGED <<plants_folder_id, auth_ok>>
         ELSE /\ plants_folder_id' = r.id
              /\ auth_ok' = TRUE
              /\ pc' = "auth_done"
  /\ UNCHANGED <<ctx, config, at_signal, running, drive, store, local_files, clock,
                 cyclevars, cam, uploadvars, started_at, ended_at, ending>>

\* authenticate_drive: get_or_create_drive_folder("plants"), the creation
AuthCreate ==
  /\ pc = "auth_create"
  /\ \E ok \in BOOLEAN :
       IF ok THEN /\ folders' = folders \cup {CreateFolder(PlantsName, None)}
                  /\ created' = created \cup
                       {[id |-> NewId, name |-> PlantsName, parent |-> RootId,
                         cycle |-> cycles]}
                  /\ plants_folder_id' = NewId
             ELSE /\ plants_folder_id' = None
                  /\ UNCHANGED <<folders, created>>
  /\ auth_ok' = TRUE
  /\ pc' = "auth_done"
  /\ UNCHANGED <<ctx, config, at_signal, running, drive, remote_files, local_files, clock,
                 cyclevars, cam, uploadvars, history, ending>>

\* a main that does not look at the value authenticate_drive returned
MainIgnoresAuth ==
  /\ pc = "auth_done"
  /\ next_run' = now + capture_interval_seconds
  /\ events' = events \cup {"scheduled"}
  /\ pc' = "cycle_begin"
  /\ ctx' = "first"
  /\ UNCHANGED <<config, at_signal, globals, store, local_files, now, cyclevars, cam,
                 uploadvars, started_at, ended_at, ending>>

\* main: if not authenticate_drive(): return; schedule the job; first cycle
MainCheckAuth ==
  /\ pc = "auth_done"
  /\ IF ~auth_ok
       THEN /\ pc' = "exited"
            /\ exit_kind' = "auth_failed"
            /\ UNCHANGED <<ctx, next_run, events>>
       ELSE /\ next_run' = ScheduleNextRun(now, next_run)
            /\ events' = events \cup {"scheduled"}
            /\ pc' = "cycle_begin"
            /\ ctx' = "first"
            /\ UNCHANGED exit_kind
  /\ UNCHANGED <<config, at_signal, globals, store, local_files, now, cyclevars, cam,
                 uploadvars, started_at, ended_at, ended_logged>>

\* ------------------------------------------------------ capture_and_upload
\* capture_and_upload: the running check, the names of this cycle, os.makedirs
CycleBegin ==
  /\ pc = "cycle_begin"
  /\ IF ~running
       THEN /\ IF ctx = "first"
                 THEN pc' = "loop_top" /\ UNCHANGED next_run
                 ELSE pc' = "loop_sleep" /\ next_run' = ScheduleNextRun(now, next_run)
            /\ ctx' = "none"
            /\ UNCHANGED <<cyclevars, cam, uploadvars, started_at, ending>>
       ELSE /\ started_at' = Append(started_at, now)
            /\ date_folder' = StrfDate(WallClock(now))
            /\ filename' = StrfStamp(WallClock(now))
            /\ day_folder_id' = None
            /\ capture_result' = "pending"
            /\ invoked' = {}
            /\ attempt' = 0
            /\ outcomes' = <<>>
            /\ upload_result' = "none"
            /\ UNCHANGED next_run
            /\ \E made \in BOOLEAN :
                 IF made THEN /\ pc' = "cap_open"
                              /\ UNCHANGED <<ctx, cam, ending>>
                         ELSE Raise("crash")
  /\ UNCHANGED <<config, at_signal, globals, store, local_files, now, events, ended_at>>

\* the path capture_and_upload gives to capture_image
local_filepath == LocalPath(<<"captured_images", date_folder>>, filename)

\* capture_image: cv2.VideoCapture(index), the isOpened check
CaptureOpen ==
  /\ pc = "cap_open"
  /\ events' = events \cup {"cam_open"}
  /\ invoked' = invoked \cup {"capture"}
  /\ \E r \in {"opened", "not_opened", "error"} :
       /\ CASE r = "opened" ->
                 /\ cam' = "held"
                 /\ pc' = "cap_read"
                 /\ UNCHANGED capture_result
            [] r = "not_opened" ->
                 /\ cam' = CaptureFinally("held")
                 /\ capture_result' = "not_opened"
                 /\ pc' = "cap_done"
            [] r = "error" ->
                 /\ cam' = "none"
                 /\ capture_result' = "error"
                 /\ pc' = "cap_done"
  /\ UNCHANGED <<ctx, config, at_signal, globals, store, local_files, clock, date_folder,
                 filename, day_folder_id, uploadvars, started_at, ended_at, ending>>

\* capture_image: cam.set, the warmup sleep, cam.read()
CaptureRead ==
  /\ pc = "cap_read"
  /\ \E d \in Durations, r \in {"frame", "no_frame", "error"} :
       /\ CanWait(warmup_time + d)
       /\ now' = now + warmup_time + d
       /\ IF r = "frame"
            THEN /\ pc' = "cap_write"
                 /\ UNCHANGED <<cam, capture_result>>
            ELSE /\ cam' = CaptureFinally(cam)
                 /\ capture_result' = r
                 /\ pc' = "cap_done"
  /\ UNCHANGED <<ctx, config, at_signal, globals, store, local_files, next_run, date_folder,
                 filename, day_folder_id, invoked, uploadvars, history, ending>>

\* sizes of the file cv2.imwrite leaves behind; 0 stands for no file
FileSizes == {0, MinFileSize - 1, MinFileSize, MinFileSize + 1}

\* a check that only asks whether the file exists
FileAcceptedIfExists(size) == size > 0

\* capture_image: os.path.exists(filepath) and os.path.getsize(filepath) > 1000
FileAccepted(size) == size > MinFileSize

\* the disk after a write of the given size at the given path
WriteFile(files, path, size) ==
  IF size = 0 THEN files
  ELSE {f \in files : f.path # path} \cup {[path |-> path, size |-> size]}

\* capture_image: cv2.imwrite, the size check, the release
CaptureWrite ==
  /\ pc = "cap_write"
  /\ \E size \in FileSizes, raised \in BOOLEAN :
       /\ raised => size = 0
       /\ local_files' = WriteFile(local_files, local_filepath, size)
       /\ capture_result' = IF raised THEN "error"
                            ELSE IF FileAccepted(size) THEN "ok" ELSE "bad_file"
  /\ cam' = CaptureFinally(cam)
  /\ pc' = "cap_done"
  /\ UNCHANGED <<ctx, config, at_signal, globals, store, clock, date_folder, filename,
                 day_folder_id, invoked, uploadvars, history, ending>>

\* a capture_and_upload that does not look at the value capture_image returned
CheckCaptureIgnored ==
  /\ pc = "cap_done"
  /\ IF drive /\ plants_folder_id # None
       THEN /\ pc' = "cyc_query"
            /\ UNCHANGED <<ctx, clock, ended_at>>
       ELSE /\ now' = now
            /\ CycleReturn
  /\ UNCHANGED <<config, at_signal, globals, store, local_files, cyclevars, cam, uploadvars,
                 events, started_at, ending>>

\* capture_and_upload: if not capture_image(...): return; if drive and plants_folder_id
CheckCapture ==
  /\ pc = "cap_done"
  /\ IF capture_result = "ok" /\ drive /\ plants_folder_id # None
       THEN /\ pc' = "cyc_query"
            /\ UNCHANGED <<ctx, clock, ended_at>>
       ELSE /\ now' = now
            /\ CycleReturn
  /\ UNCHANGED <<config, at_signal, globals, store, local_files, cyclevars, cam, uploadvars,
                 events, started_at, ending>>

\* a capture_and_upload that uploads whatever the resolver returned
AfterResolveUnchecked(id) ==
  /\ attempt' = -1
  /\ pc' = "up_for"
  /\ UNCHANGED <<ctx, next_run, ended_at>>

\* capture_and_upload: what follows the return of get_or_create_drive_folder
AfterResolve(id) ==
  IF id # None
    THEN /\ attempt' = -1
         /\ pc' = "up_for"
         /\ UNCHANGED <<ctx, next_run, ended_at>>
    ELSE /\ UNCHANGED attempt
         /\ CycleReturn

\* capture_and_upload: get_or_create_drive_folder(date_folder, plants_folder_id), the query
CycleQuery ==
  /\ pc = "cyc_query"
  /\ events' = events \cup {"resolve"}
  /\ invoked' = invoked \cup {"resolver"}
  /\ now' = now
  /\ \E r \in ListFileOutcomes(date_folder, plants_folder_id) :
       /\ IF r.k = "empty"
            THEN /\ pc' = "cyc_create"
                 /\ UNCHANGED <<day_folder_id, attempt, ctx, next_run, ended_at>>
            ELSE /\ day_folder_id' = r.id
                 /\ AfterResolve(r.id)
  /\ UNCHANGED <<config, at_signal, globals, store, local_files, date_folder, filename,
                 capture_result, cam, outcomes, upload_result, started_at, ending>>

\* a creation that names the remote folder by the date at the time of the call
CycleCreateDatedNow ==
  /\ pc = "cyc_create"
  /\ now' = now
  /\ \E ok \in BOOLEAN :
       /\ IF ok THEN /\ folders' = folders \cup
                          {CreateFolder(StrfDate(WallClock(now)), plants_folder_id)}
                     /\ created' = created \cup
                          {[id |-> NewId, name |-> StrfDate(WallClock(now)),
                            parent |-> plants_folder_id, cycle |-> cycles]}
                     /\ day_folder_id' = NewId
                     /\ AfterResolve(NewId)
                ELSE /\ day_folder_id' = None
                     /\ UNCHANGED <<folders, created>>
                     /\ AfterResolve(None)
  /\ UNCHANGED <<config, at_signal, globals, remote_files, local_files, date_folder, filename,
                 capture_result, invoked, cam, outcomes, upload_result, events, started_at,
                 ending>>

\* capture_and_upload: get_or_create_drive_folder(date_folder, plants_folder_id), the creation
CycleCreate ==
  /\ pc = "cyc_create"
  /\ now' = now
  /\ \E ok \in BOOLEAN :
       /\ IF ok THEN /\ folders' = folders \cup {CreateFolder(date_folder, plants_folder_id)}
                     /\ created' = created \cup
                          {[id |-> NewId, name |-> date_folder,
                            parent |-> plants_folder_id, cycle |-> cycles]}
                     /\ day_folder_id' = NewId
                     /\ AfterResolve(NewId)
                ELSE /\ day_folder_id' = None
                     /\ UNCHANGED <<folders, created>>
                     /\ AfterResolve(None)
  /\ UNCHANGED <<config, at_signal, globals, remote_files, local_files, date_folder, filename,
                 capture_result, invoked, cam, outcomes, upload_result, events, started_at,
                 ending>>

\* -------------------------------------------------------- upload_with_retry
\* a loop that makes one attempt too many
RangeHasNextInclusive(a, n) == a + 1 <= n

\* for attempt in range(max_retries): there is another iteration
RangeHasNext(a, n) == a + 1 < n

\* a retry loop that sleeps after every failed attempt, the last one included
SleepsAfterEveryFailure(a, n) == TRUE

\* if attempt < max_retries - 1: time.sleep(5)
SleepsBeforeRetry(a, n) == a < n - 1

\* upload_with_retry: the head of the for loop, and return False after it
UploadFor ==
  /\ pc = "up_for"
  /\ IF RangeHasNext(attempt, max_retries)
       THEN /\ attempt' = attempt + 1
            /\ pc' = "up_try"
            /\ UNCHANGED <<upload_result, ctx, clock, ended_at>>
       ELSE /\ upload_result' = "fail"
            /\ UNCHANGED attempt
            /\ now' = now
            /\ CycleReturn
  /\ UNCHANGED <<config, at_signal, globals, store, local_files, cyclevars, cam, outcomes,
                 events, started_at, ending>>

\* an attempt that removes the local file once it is uploaded
UploadAttemptDeletesLocal ==
  /\ pc = "up_try"
  /\ events' = events \cup {"upload"}
  /\ invoked' = invoked \cup {"uploader"}
  /\ \E d \in Durations, ok \in BOOLEAN :
       /\ CanWait(d)
       /\ now' = now + d
       /\ IF ok
            THEN /\ remote_files' = remote_files \cup
                      {[id |-> NewId, title |-> filename, parent |-> day_folder_id]}
                 /\ local_files' = {f \in local_files : f.path # local_filepath}
                 /\ outcomes' = Append(outcomes, "ok")
                 /\ upload_result' = "ok"
                 /\ pc' = "list_local"
            ELSE /\ outcomes' = Append(outcomes, "fail")
                 /\ pc' = IF SleepsBeforeRetry(attempt, max_retries)
                            THEN "up_sleep" ELSE "up_for"
                 /\ UNCHANGED <<remote_files, upload_result, local_files>>
  /\ UNCHANGED <<ctx, config, at_signal, globals, folders, created, next_run,
                 date_folder, filename, day_folder_id, capture_result, cam, attempt,
                 started_at, ended_at, ending>>

\* an attempt that succeeds and does not leave the loop
UploadAttemptNoReturn ==
  /\ pc = "up_try"
  /\ events' = events \cup {"upload"}
  /\ invoked' = invoked \cup {"uploader"}
  /\ \E d \in Durations, ok \in BOOLEAN :
       /\ CanWait(d)
       /\ now' = now + d
       /\ IF ok
            THEN /\ remote_files' = remote_files \cup
                      {[id |-> NewId, title |-> filename, parent |-> day_folder_id]}
                 /\ outcomes' = Append(outcomes, "ok")
                 /\ pc' = "up_for"
                 /\ UNCHANGED upload_result
            ELSE /\ outcomes' = Append(outcomes, "fail")
                 /\ pc' = IF SleepsBeforeRetry(attempt, max_retries)
                            THEN "up_sleep" ELSE "up_for"
                 /\ UNCHANGED <<remote_files, upload_result>>
  /\ UNCHANGED <<ctx, config, at_signal, globals, folders, created, local_files, next_run,
                 date_folder, filename, day_folder_id, capture_result, cam, attempt,
                 started_at, ended_at, ending>>

\* upload_with_retry: one attempt, CreateFile, SetContentFile, Upload
UploadAttempt ==
  /\ pc = "up_try"
  /\ events' = events \cup {"upload"}
  /\ invoked' = invoked \cup {"uploader"}
  /\ \E d \in Durations, ok \in BOOLEAN :
       /\ CanWait(d)
       /\ now' = now + d
       /\ IF ok
            THEN /\ remote_files' = remote_files \cup
                      {[id |-> NewId, title |-> filename, parent |-> day_folder_id]}
                 /\ outcomes' = Append(outcomes, "ok")
                 /\ upload_result' = "ok"
                 /\ pc' = "list_local"
            ELSE /\ outcomes' = Append(outcomes, "fail")
                 /\ pc' = IF SleepsBeforeRetry(attempt, max_retries)
                            THEN "up_sleep" ELSE "up_for"
                 /\ UNCHANGED <<remote_files, upload_result>>
  /\ UNCHANGED <<ctx, config, at_signal, globals, folders, created, local_files, next_run,
                 date_folder, filename, day_folder_id, capture_result, cam, attempt,
                 started_at, ended_at, ending>>

\* upload_with_retry: time.sleep(5) before the next attempt
UploadSleep ==
  /\ pc = "up_sleep"
  /\ CanWait(RetryDelay)
  /\ now' = now + RetryDelay
  /\ outcomes' = Append(outcomes, "sleep")
  /\ pc' = "up_for"
  /\ UNCHANGED <<ctx, config, at_signal, globals, store, local_files, next_run, cyclevars,
                 cam, attempt, upload_result, history, ending>>

\* capture_and_upload: if success: len(os.listdir(local_day_folder))
ListLocal ==
  /\ pc = "list_local"
  /\ \E listed \in BOOLEAN :
       IF listed THEN /\ now' = now
                      /\ CycleReturn
                      /\ UNCHANGED <<cam, ending>>
                 ELSE /\ Raise("crash")
                      /\ UNCHANGED <<clock, ended_at>>
  /\ UNCHANGED <<config, at_signal, globals, store, local_files, cyclevars, uploadvars,
                 events, started_at>>

\* ------------------------------------------------------------ specification
Next ==
  \/ Authenticate
  \/ AuthQuery
  \/ AuthCreate
  \/ MainCheckAuth
  \/ CycleBegin
  \/ CaptureOpen
  \/ CaptureRead
  \/ CaptureWrite
  \/ CheckCapture
  \/ CycleQuery
  \/ CycleCreate
  \/ UploadFor
  \/ UploadAttempt
  \/ UploadSleep
  \/ ListLocal
  \/ LoopTop
  \/ LoopSleep
  \/ signal_handler

Spec == Init /\ [][Next]_vars

TypeOK ==
  /\ pc \in {"start", "auth_query", "auth_create", "auth_done", "cycle_begin",
             "cap_open", "cap_read", "cap_write", "cap_done", "cyc_query",
             "cyc_create", "up_for", "up_try", "up_sleep", "list_local",
             "loop_top", "loop_sleep", "exited"}
  /\ ctx \in {"none", "first", "sched"}
  /\ cam \in {"none", "held"}
  /\ now \in 0..MaxTime
  /\ exit_kind \in {"none", "auth_failed", "signal", "crash", "loop_end"}

\* ================================================================== claims
Max(a, b) == IF a >= b THEN a ELSE b

\* the upload attempts of the last upload_with_retry call, in order
Attempts == SelectSeq(outcomes, LAMBDA e : e # "sleep")

\* C1: upload_with_retry makes at most max_retries attempts, no attempt
\* follows a successful one, it returns success only right after a successful
\* attempt, and it returns failure only after exactly max_retries attempts
\* that all failed.
C1_UploadRetryContract ==
  /\ Len(Attempts) <= max_retries
  /\ \A i \in 1..(Len(Attempts) - 1) : Attempts[i] = "fail"
  /\ upload_result = "ok" =>
       Len(Attempts) >= 1 /\ Attempts[Len(Attempts)] = "ok"
  /\ upload_result = "fail" =>
       /\ Len(Attempts) = max_retries
       /\ \A i \in 1..Len(Attempts) : Attempts[i] = "fail"

\* an upload that failed after three attempts
C1_Witness ==
  upload_result = "fail" /\ max_retries = 3 /\ Len(Attempts) = 3

\* C2: a shutdown signal that arrives while a capture cycle is in flight does
\* not interrupt it: the process exits on a signal only when every cycle that
\* was started has run to completion.
C2_SignalDoesNotInterruptCycle ==
  (pc = "exited" /\ ~running) => Len(ended_at) = cycles

\* C3: once a shutdown signal has been received no capture cycle is started
\* and no camera open, folder resolution or upload attempt begins, and when no
\* cycle was in flight the loop is left within one polling delay.
C3_NothingStartsAfterSignal ==
  ~running =>
    /\ cycles = at_signal.cycles
    /\ events = at_signal.events
    /\ ~at_signal.in_flight =>
         (pc = "exited" \/ now <= at_signal.now + PollDelay)

\* the signal arrived between two ticks, after the first cycle
C3_Witness ==
  /\ ~running
  /\ pc = "exited"
  /\ ~at_signal.in_flight
  /\ at_signal.cycles >= 1

\* C4 as stated: one cycle at once, and the second cycle exactly at the
\* interval mark.
C4_SecondCycleAtIntervalMark ==
  /\ pc \in {"loop_top", "loop_sleep"} => cycles >= 1
  /\ cycles >= 1 => started_at[1] = 0
  /\ cycles >= 2 => started_at[2] = capture_interval_seconds

\* C4 amended: one cycle at once, no further cycle before the interval has
\* elapsed, and the second cycle at the first poll at or after the interval
\* mark: at the mark when the first cycle has ended by then, and otherwise as
\* soon as the first cycle has ended.
C4_SecondCycleAtFirstPollAfterMark ==
  /\ pc \in {"loop_top", "loop_sleep"} => cycles >= 1
  /\ cycles >= 1 => started_at[1] = 0
  /\ cycles >= 2 =>
       /\ started_at[2] >= capture_interval_seconds
       /\ started_at[2] = Max(capture_interval_seconds, ended_at[1])

\* a first cycle that captured an image and ended before the interval mark,
\* and a second cycle that started at the mark
C4_Witness ==
  /\ cycles >= 2
  /\ ended_at[1] > 0
  /\ ended_at[1] < capture_interval_seconds
  /\ started_at[2] = capture_interval_seconds

\* C5: at most one cycle is in progress, a cycle starts only after the one
\* before it has ended, and after a cycle run by the scheduler the next one
\* waits a whole interval from its end, however many ticks it missed.
C5_NoOverlapNoQueue ==
  /\ Len(ended_at) \in {cycles - 1, cycles}
  /\ \A k \in 2..cycles : started_at[k] >= ended_at[k - 1]
  /\ \A k \in 3..cycles :
       started_at[k] >= ended_at[k - 1] + capture_interval_seconds

\* a third cycle after a second one that lasted longer than the interval
C5_Witness ==
  /\ cycles = 3
  /\ ended_at[2] - started_at[2] > capture_interval_seconds

\* authentication was tried and failed: the global drive was never set
AuthFailed == pc # "start" /\ ~drive

\* C6: when startup authentication fails the program does not enter the
\* loop: no job is scheduled, no cycle is started, no camera is opened, no
\* folder is resolved and no upload is attempted.
C6_AuthFailureIsFatal ==
  AuthFailed =>
    /\ pc \in {"auth_done", "exited"}
    /\ cycles = 0
    /\ events = {}
    /\ next_run = -1

\* main returned because authentication failed
C6_Witness == exit_kind = "auth_failed"

\* C7: when the camera cannot be opened or returns no frame, capture_image
\* reports failure, there is no file at the computed path, the folder
\* resolver and the uploader are not invoked in that cycle, and the program
\* is still in its loop unless a signal ended it.
C7_DeviceFailureSkipsCycle ==
  capture_result \in {"not_opened", "no_frame"} =>
    /\ \A f \in local_files : f.path # local_filepath
    /\ invoked \cap {"resolver", "uploader"} = {}
    /\ pc \in {"cap_done", "loop_top", "loop_sleep", "cycle_begin"}
         \/ exit_kind = "signal"

\* a cycle run by the loop after a first cycle whose camera did not deliver,
\* itself ending without a frame and back in the loop
C7_Witness ==
  /\ cycles = 2
  /\ ended_at[1] = 0
  /\ capture_result = "no_frame"
  /\ pc = "loop_sleep"

\* C8: no failure of a step of a capture cycle terminates the process.
C8_NoCycleFailureEndsProcess == exit_kind # "crash"

\* C9: once get_or_create_drive_folder has created the folder for a (name,
\* parent), there stays exactly one folder with that name under that parent,
\* and a later successful call for it returns the identifier of that folder.
C9_FolderResolutionIdempotent ==
  \A c \in created :
    /\ Cardinality({f \in folders : f.name = c.name /\ f.parent = c.parent}) = 1
    /\ (day_folder_id # None /\ date_folder = c.name /\ plants_folder_id = c.parent)
         => day_folder_id = c.id

\* a cycle resolved the day folder that an earlier cycle had created
C9_Witness ==
  \E c \in created :
    /\ c.name = date_folder
    /\ c.cycle < cycles
    /\ day_folder_id = c.id

\* C10: the camera is held only inside capture_image: it is released when
\* capture_image returns and when an exception leaves it.
C10_CameraReleased ==
  cam = "held" => pc \in {"cap_read", "cap_write"}

\* the signal arrived inside capture_image while the camera was open, and the
\* camera is released
C10_Witness ==
  /\ exit_kind = "signal"
  /\ "capture" \in invoked
  /\ capture_result = "pending"
  /\ cam = "none"

\* the files on the local disk at the given path
FilesAt(path) == {f \in local_files : f.path = path}

\* C11: whenever capture_image reports success there is a file at the path it
\* was given, of at least 1000 bytes; a write that left no file or a smaller
\* one is reported as failure.
C11_SuccessMeansFileOfMinSize ==
  /\ capture_result = "ok" =>
       \E f \in FilesAt(local_filepath) : f.size >= MinFileSize
  /\ (/\ capture_result \in {"ok", "bad_file"}
      /\ \A f \in FilesAt(local_filepath) : f.size < MinFileSize)
       => capture_result = "bad_file"

\* capture_image returned success for a file just above the threshold
C11_Witness ==
  /\ capture_result = "ok"
  /\ pc = "cap_done"
  /\ \E f \in FilesAt(local_filepath) : f.size = MinFileSize + 1

\* the day-folder resolution of this cycle has returned null
ResolvedNull ==
  /\ "resolver" \in invoked
  /\ day_folder_id = None
  /\ pc \notin {"cyc_query", "cyc_create"}

\* C12: a remote failure inside get_or_create_drive_folder gives a null
\* result and no exception; the cycle then makes no upload attempt, no upload
\* is ever made with a null folder identifier, and the program is still in
\* its loop unless a signal ended it.
C12_NullFolderSkipsUpload ==
  /\ ResolvedNull =>
       /\ "uploader" \notin invoked
       /\ outcomes = <<>>
       /\ pc \in {"loop_top", "loop_sleep", "cycle_begin"} \/ exit_kind = "signal"
  /\ pc \in {"up_for", "up_try", "up_sleep", "list_local"} => day_folder_id # None
  /\ \A r \in remote_files : r.parent # None

\* a cycle run by the loop whose resolution failed, back in the loop
C12_Witness ==
  /\ ResolvedNull
  /\ capture_result = "ok"
  /\ cycles >= 2
  /\ pc = "loop_sleep"

\* C13: after a failed folder resolution, the one at startup included, a
\* later cycle whose capture succeeded resolves the day folder again: every
\* cycle that has returned with a successful capture has invoked the resolver.
C13_EveryFailureRetriedNextTick ==
  (capture_result = "ok" /\ pc \in {"loop_top", "loop_sleep", "cycle_begin"})
    => "resolver" \in invoked

\* number of entries of a sequence equal to a value
Count(seq, v) == Cardinality({i \in 1..Len(seq) : seq[i] = v})

\* C14: in upload_with_retry every sleep follows a failed attempt and
\* precedes another attempt, every failed attempt that is followed by another
\* attempt is followed by one sleep first, nothing follows a success, and a
\* call that has returned after k attempts has slept k - 1 times.
C14_SleepOnlyBetweenAttempts ==
  /\ \A i \in 1..Len(outcomes) :
       /\ outcomes[i] = "sleep" => (i > 1 /\ outcomes[i - 1] = "fail")
       /\ outcomes[i] = "ok" => i = Len(outcomes)
       /\ (outcomes[i] = "fail" /\ i < Len(outcomes)) => outcomes[i + 1] = "sleep"
  /\ upload_result # "none" =>
       /\ Len(outcomes) >= 1
       /\ outcomes[Len(outcomes)] # "sleep"
       /\ Count(outcomes, "sleep") = Len(Attempts) - 1

\* an upload that succeeded at its second attempt, after one sleep
C14_Witness ==
  /\ upload_result = "ok"
  /\ outcomes = <<"fail", "sleep", "ok">>

\* C15: once the job is scheduled, every way the process ends has logged the
\* final entry first.
C15_FinalLogOnEveryExit ==
  (pc = "exited" /\ "scheduled" \in events) => ended_logged

\* C16: every upload goes to the remote folder named like the local directory
\* that holds the file, under the title of the local file, and the file name
\* and the directory carry the same date, also when the cycle spans midnight.
C16_LocalAndRemoteInLockstep ==
  /\ cycles >= 1 => filename[1] = date_folder[2]
  /\ pc \in {"up_for", "up_try", "up_sleep", "list_local"} =>
       \E f \in folders : f.id = day_folder_id /\ f.name = date_folder
  /\ \A r \in remote_files :
       \E f \in folders :
         /\ f.id = r.parent
         /\ FilesAt(LocalPath(<<"captured_images", f.name>>, r.title)) # {}

\* a file uploaded after midnight in a cycle that began before midnight, into
\* a day folder created in that cycle
C16_Witness ==
  /\ pc = "list_local"
  /\ started_at[cycles] < LeadToMidnight
  /\ now >= LeadToMidnight
  /\ \E c \in created : c.id = day_folder_id /\ c.cycle = cycles

\* C17: the folder resolution and the upload leave the local files as they
\* are: no step of either removes or changes a file.
C17_UploadLeavesLocalFile ==
  [][(pc \in {"cap_done", "cyc_query", "cyc_create", "up_for", "up_try",
              "up_sleep", "list_local"})
       => (local_files' = local_files)]_vars

\* the upload failed after all its attempts and the captured file is there
C17_Witness ==
  /\ upload_result = "fail"
  /\ \E f \in FilesAt(local_filepath) : FileAccepted(f.size)

\* the remote files that carry the title of this cycle's image
Placed == {r \in remote_files : r.title = filename}

\* C18: with atomic attempts a cycle places at most one remote file for its
\* image, exactly one when upload_with_retry returns success, and none when
\* it returns failure.
C18_AtMostOneRemoteFile ==
  /\ Cardinality(Placed) <= 1
  /\ upload_result = "ok" => Cardinality(Placed) = 1
  /\ upload_result = "fail" => Cardinality(Placed) = 0

\* an upload that succeeded after a failed attempt placed one file
C18_Witness ==
  /\ upload_result = "ok"
  /\ Len(Attempts) >= 2
  /\ Cardinality(Placed) = 1

====
